---- MODULE Spec2Model ----
(***************************************************************************)
(* Model of the mastery-level logic of src/app.py: the item store, binary *)
(* flashcard practice (update_practice), the evaluation batch updater     *)
(* (UnifiedEvaluationManager.update_mastery_levels) and the test          *)
(* generator (UnifiedTestManager).                                        *)
(*                                                                         *)
(* Numbers: Python's None is modelled by the integer None == -1 (no score, *)
(* level or counter of the program is negative).  Thresholds are kept in  *)
(* tenths (the suffix 10) so that float(threshold) / 10 stays exact.      *)
(***************************************************************************)
EXTENDS Integers, Sequences, FiniteSets, TLC

VARIABLES items, native, postgres, pc, pre, req, locals, resp, gen, upload,
          resp100, sessions

vars == <<items, native, postgres, pc, pre, req, locals, resp, gen, upload,
          resp100, sessions>>

----------------------------------------------------------------------------
(* Bounds of the model *)

\* ids used in requests; the store holds rows for a subset of Kinds \X Ids
MaxId == 1
\* update_practice is explored while times_practiced is below this
MaxTimes == 6
\* longest results list of the evaluation upload of a single batch
MaxBatch == 2
\* largest number of eligible items of one kind offered to the test generator
MaxAvail == 5
\* largest configured max_questions offered to the test generator
MaxTarget == 11
\* items of each kind in the store of the test generator
MaxItems == 2
\* largest max_questions of a test drawn from that store
MaxPick == 2
\* longest list of records in an uploaded document
MaxEntries == 2
MaxSessions == 2

----------------------------------------------------------------------------
(* Values *)

None == -1

Kinds == {"vocabulary", "phrasal_verb", "idiom"}
Ids == 1..MaxId
Keys == Kinds \X Ids

\* last_practiced: NULL, a timestamp written by an earlier request ("old"),
\* or the timestamp datetime.utcnow() of the request just handled ("now")
LastValues == {"null", "old", "now"}

Or0(x) == IF x = None THEN 0 ELSE x

Min(a, b) == IF a < b THEN a ELSE b
Max(a, b) == IF a > b THEN a ELSE b

AbsentRow == [present |-> FALSE, mastery_level |-> None,
              times_practiced |-> None, last_practiced |-> "null"]

Row(l, t, p) == [present |-> TRUE, mastery_level |-> l,
                 times_practiced |-> t, last_practiced |-> p]

\* time passes between two requests: the "now" of a request is an older
\* timestamp once the request is over
Age(st) == [k \in DOMAIN st |->
              IF st[k].last_practiced = "now"
              THEN [st[k] EXCEPT !.last_practiced = "old"] ELSE st[k]]

\* db.session.get(Model, id) of the three lookups
get_item_by_id_and_type(st, item_id, item_type) ==
  IF <<item_type, item_id>> \in DOMAIN st /\ st[<<item_type, item_id>>].present
  THEN st[<<item_type, item_id>>] ELSE AbsentRow

----------------------------------------------------------------------------
(* UnifiedEvaluationManager.update_mastery_levels *)

\* os.getenv defaults of the thresholds and of the three actions
env_excellent == 7
env_poor == 3
excellent_action == "increase"
poor_action == "decrease"
medium_action == "maintain"

RECURSIVE SumSeq(_)
SumSeq(s) == IF s = << >> THEN 0 ELSE Head(s) + SumSeq(Tail(s))

RECURSIVE MaxSeq(_)
MaxSeq(s) == IF Len(s) = 1 THEN s[1] ELSE Max(Head(s), MaxSeq(Tail(s)))

\* the scores collected for the scale detection: not None and > 0
RECURSIVE all_scores(_)
all_scores(results) ==
  IF results = << >> THEN << >>
  ELSE LET score == Head(results).score
       IN  IF score # None /\ score > 0
           THEN <<score>> \o all_scores(Tail(results))
           ELSE all_scores(Tail(results))

\* a detection that asks every positive score of the batch to exceed 10
detected_scale_100_all(results) ==
  LET sc == all_scores(results)
  IN  /\ sc # << >>
      /\ \A i \in 1..Len(sc) : sc[i] > 10

\* max_score > 10 or avg_score > 10 (avg = sum / len, compared exactly)
detected_scale_100(results) ==
  LET sc == all_scores(results)
  IN  /\ sc # << >>
      /\ \/ MaxSeq(sc) > 10
         \/ SumSeq(sc) > 10 * Len(sc)

\* excellent_threshold, in tenths
excellent_threshold10(threshold, scale100) ==
  IF threshold # None
  THEN IF scale100
       THEN IF threshold <= 10 THEN threshold * 10 * 10 ELSE threshold * 10
       ELSE IF threshold > 10 THEN threshold ELSE threshold * 10
  ELSE IF scale100 THEN env_excellent * 10 * 10 ELSE env_excellent * 10

\* poor_threshold, in tenths
poor_threshold10(threshold, scale100) ==
  IF threshold # None
  THEN IF scale100
       THEN IF threshold <= 10 THEN Max(10 * 10, (threshold - 4) * 10 * 10)
                               ELSE Max(10 * 10, (threshold - 40) * 10)
       ELSE IF threshold > 10 THEN Max(1 * 10, threshold - 40)
                              ELSE Max(1 * 10, (threshold - 4) * 10)
  ELSE IF scale100 THEN env_poor * 10 * 10 ELSE env_poor * 10

\* band_action with a closed excellent band (>= in place of >)
band_action_closed(score, exc10, poor10) ==
  IF score * 10 >= exc10 /\ excellent_action = "increase" THEN "increased_level"
  ELSE IF score * 10 < poor10 /\ poor_action = "decrease" THEN "reduced_level"
  ELSE IF poor10 <= score * 10 /\ score * 10 <= exc10 /\ medium_action = "maintain"
       THEN "maintained_level"
  ELSE "no_change"

\* the three-band rule applied to one found item: the action taken
band_action(score, exc10, poor10) ==
  IF score * 10 > exc10 /\ excellent_action = "increase" THEN "increased_level"
  ELSE IF score * 10 < poor10 /\ poor_action = "decrease" THEN "reduced_level"
  ELSE IF poor10 <= score * 10 /\ score * 10 <= exc10 /\ medium_action = "maintain"
       THEN "maintained_level"
  ELSE "no_change"

\* band_level with the ceiling 15 of update_practice in place of 10
band_level_ceiling15(action, old_level) ==
  IF action = "increased_level" THEN Min(15, old_level + 1)
  ELSE IF action = "reduced_level" THEN Max(0, old_level - 1)
  ELSE old_level

\* new_level of one found item
band_level(action, old_level) ==
  IF action = "increased_level" THEN Min(10, old_level + 1)
  ELSE IF action = "reduced_level" THEN Max(0, old_level - 1)
  ELSE old_level

\* a row whose counters are reset by every change of level
changed_row_reset_always(item, new_level) ==
  [item EXCEPT !.mastery_level = new_level,
               !.times_practiced = 0, !.last_practiced = "null"]

\* the row written when the level changed
changed_row(item, new_level) ==
  IF new_level = 0
  THEN [item EXCEPT !.mastery_level = new_level,
                    !.times_practiced = 0, !.last_practiced = "null"]
  ELSE [item EXCEPT !.mastery_level = new_level]

Change(result, action, old_level, new_level) ==
  [id |-> result.question_id, word_type |-> result.word_type,
   action |-> action, old_level |-> old_level, new_level |-> new_level,
   score |-> result.score]

\* one iteration of the loop over processed_data['results'];
\* s.raised: a TypeError left the loop (None compared or added to a number)
process_result(s, result, commit_fails, exc10, poor10) ==
  LET item == get_item_by_id_and_type(s.items, result.question_id, result.word_type)
      key == <<result.word_type, result.question_id>>
      score == result.score
      old_level == item.mastery_level
      action == band_action(score, exc10, poor10)
      new_level == band_level(action, old_level)
  IN  IF s.raised \/ ~item.present THEN s
      ELSE IF score = None THEN [s EXCEPT !.raised = TRUE]
      ELSE IF old_level = None /\ action \in {"increased_level", "reduced_level"}
           THEN [s EXCEPT !.raised = TRUE]
      ELSE IF new_level # old_level
           THEN IF commit_fails
                THEN [s EXCEPT !.failed_items =
                        Append(@, Change(result, "failed", old_level, old_level))]
                ELSE [s EXCEPT !.items[key] = changed_row(item, new_level),
                               !.updated_items =
                        Append(@, Change(result, action, old_level, new_level))]
      ELSE [s EXCEPT !.updated_items =
                        Append(@, Change(result, action, old_level, new_level))]

RECURSIVE process_results(_, _, _, _, _, _)
process_results(s, results, i, failAt, exc10, poor10) ==
  IF i > Len(results) THEN s
  ELSE process_results(process_result(s, results[i], i = failAt, exc10, poor10),
                       results, i + 1, failAt, exc10, poor10)

CountAction(changes, acts) ==
  Cardinality({i \in 1..Len(changes) : changes[i].action \in acts})

NoResp == [status |-> "none", changes |-> << >>, failed_items |-> << >>,
           threshold_used10 |-> 0, poor_threshold_used10 |-> 0,
           scale100 |-> FALSE, total_questions |-> 0,
           increased_count |-> 0, decreased_count |-> 0,
           maintained_count |-> 0, failed_count |-> 0]

\* updated_items and failed_items when the method returned or raised
NoLocals == [updated_items |-> << >>, failed_items |-> << >>, raised |-> FALSE]

Locals(s) == [updated_items |-> s.updated_items, failed_items |-> s.failed_items,
              raised |-> s.raised]

\* the whole method: the store after it, its local lists and the response
\* of the request (status "error": the exception reached the route's handler)
update_mastery_levels_result(st, processed_data, threshold, failAt) ==
  LET results == processed_data.results
      scale100 == detected_scale_100(results)
      exc10 == excellent_threshold10(threshold, scale100)
      poor10 == poor_threshold10(threshold, scale100)
      s0 == [items |-> st, updated_items |-> << >>, failed_items |-> << >>,
             raised |-> FALSE]
      s == process_results(s0, results, 1, failAt, exc10, poor10)
  IN  IF ~processed_data.can_update_mastery \/ ~processed_data.evaluation_complete
      THEN [items |-> st, locals |-> NoLocals,
            resp |-> [NoResp EXCEPT !.status = "refused"]]
      ELSE IF s.raised
      THEN [items |-> s.items, locals |-> Locals(s),
            resp |-> [NoResp EXCEPT !.status = "error"]]
      ELSE [items |-> s.items, locals |-> Locals(s),
            resp |-> [status |-> "ok",
                      changes |-> s.updated_items,
                      failed_items |-> s.failed_items,
                      threshold_used10 |-> exc10,
                      poor_threshold_used10 |-> poor10,
                      scale100 |-> scale100,
                      total_questions |-> Len(results),
                      increased_count |-> CountAction(s.updated_items, {"increased_level"}),
                      decreased_count |-> CountAction(s.updated_items, {"reduced_level"}),
                      maintained_count |-> CountAction(s.updated_items, {"maintained_level", "no_change"}),
                      failed_count |-> Len(s.failed_items)]]

----------------------------------------------------------------------------
(* migrate_to_native_db and update_practice *)

\* the model class queried for a category of /api/update-practice
category_kind(category) ==
  IF category = "vocabulary" THEN "vocabulary"
  ELSE IF category = "phrasal-verbs" THEN "phrasal_verb"
  ELSE IF category = "idioms" THEN "idiom"
  ELSE "invalid"

\* category.replace('-', '_'), the item_type handed to migrate_to_native_db
category_replace(category) ==
  IF category = "phrasal-verbs" THEN "phrasal_verbs" ELSE category

\* item: the modified row of the session; raised: the commit of the
\* SQLite-only branch raised, the caller's except clause sees it
migrate_to_native_db(st, nat, pg, key, item, item_type, commit_ok) ==
  IF ~pg
  THEN IF commit_ok
       THEN [items |-> [st EXCEPT ![key] = item], native |-> nat, raised |-> FALSE]
       ELSE [items |-> st, native |-> nat, raised |-> TRUE]
  ELSE IF ~commit_ok
       THEN [items |-> st, native |-> nat, raised |-> FALSE]
       ELSE IF item_type \in {"vocabulary", "phrasal_verb", "idiom"}
            THEN [items |-> [st EXCEPT ![key] = AbsentRow],
                  native |-> [nat EXCEPT ![key] = item], raised |-> FALSE]
            ELSE [items |-> [st EXCEPT ![key] = item], native |-> nat,
                  raised |-> FALSE]

\* practiced_row with the ceiling 10 of the evaluation updater
practiced_row_ceiling10(item, correct) ==
  [item EXCEPT
     !.times_practiced = Or0(item.times_practiced) + 1,
     !.last_practiced = "now",
     !.mastery_level = IF correct THEN Min(Or0(item.mastery_level) + 1, 10)
                                  ELSE Max(Or0(item.mastery_level) - 1, 0)]

\* the row after the counters and the level were updated
practiced_row(item, correct) ==
  [item EXCEPT
     !.times_practiced = Or0(item.times_practiced) + 1,
     !.last_practiced = "now",
     !.mastery_level = IF correct THEN Min(Or0(item.mastery_level) + 1, 15)
                                  ELSE Max(Or0(item.mastery_level) - 1, 0)]

update_practice_result(st, nat, pg, category, item_id, correct, commit_ok) ==
  LET kind == category_kind(category)
      key == <<kind, item_id>>
      item == get_item_by_id_and_type(st, item_id, kind)
      row == practiced_row(item, correct)
      m == migrate_to_native_db(st, nat, pg, key, row,
                                category_replace(category), commit_ok)
  IN  IF kind = "invalid"
      THEN [items |-> st, native |-> nat, resp |-> [NoResp EXCEPT !.status = "400"]]
      ELSE IF ~item.present
      THEN [items |-> st, native |-> nat, resp |-> [NoResp EXCEPT !.status = "404"]]
      ELSE IF row.mastery_level > 10
      THEN [items |-> m.items, native |-> m.native,
            resp |-> [NoResp EXCEPT !.status = IF m.raised THEN "500" ELSE "ok"]]
      ELSE IF commit_ok
      THEN [items |-> [st EXCEPT ![key] = row], native |-> nat,
            resp |-> [NoResp EXCEPT !.status = "ok"]]
      ELSE [items |-> st, native |-> nat, resp |-> [NoResp EXCEPT !.status = "500"]]

----------------------------------------------------------------------------------------------------------------------------------------
(* Requests *)

Categories == {"vocabulary", "phrasal-verbs", "idioms", "other"}

\* scores of an evaluated result: missing (None), poor, on the poor
\* threshold, on the excellent threshold, excellent, and one 0-100 score
ScoreValues == {None, 1, 3, 7, 9, 90}

\* the threshold of the request: None (environment), 0-10 and 0-100 values,
\* and the lowest threshold 0
ThresholdValues == {None, 0, 9, 70}

Results == [question_id : Ids, word_type : Kinds, score : ScoreValues]

RECURSIVE SeqsUpTo(_, _)
SeqsUpTo(S, n) ==
  IF n = 0 THEN {<< >>}
  ELSE LET shorter == SeqsUpTo(S, n - 1)
       IN  shorter \cup {Append(q, x) : q \in {r \in shorter : Len(r) = n - 1}, x \in S}

\* normalized uploads: evaluated ones with up to n results, and ones the
\* updater refuses (can_update_mastery or evaluation_complete false)
ProcessedData(R, n) ==
  [can_update_mastery : {TRUE}, evaluation_complete : {TRUE},
   results : SeqsUpTo(R, n)]
  \cup [can_update_mastery : {FALSE}, evaluation_complete : {FALSE},
        results : SeqsUpTo(R, 1)]
  \cup [can_update_mastery : {TRUE}, evaluation_complete : {FALSE},
        results : SeqsUpTo(R, 1)]

NoData == [can_update_mastery |-> FALSE, evaluation_complete |-> FALSE,
           results |-> << >>]

\* an uploaded document: its top-level keys, whether the value of responses
\* is a list, the records of the lists it carries and their score
NoDoc == [keys |-> {}, responses_is_list |-> TRUE, entries |-> << >>,
          score |-> None]

NoProcessed == [success |-> FALSE, format |-> "none", results |-> << >>,
                total_questions |-> 0, can_update_mastery |-> FALSE,
                evaluation_complete |-> FALSE]

\* a request to /api/evaluation and what it was answered
NoUpload == [action |-> "none", data |-> NoDoc, status |-> 0,
             success |-> FALSE, error |-> "none", processed |-> NoProcessed]

NoReq == [op |-> "none", category |-> "", id |-> 0, correct |-> FALSE,
          commit_ok |-> TRUE, data |-> NoData, threshold |-> None, failAt |-> 0]

\* no request of update_practice is in flight
NoSessions == [key |-> <<"vocabulary", 1>>, reqs |-> <<>>, order |-> <<>>]

\* the categories of a test, in the order of the question_distribution dict
\* the ratio table walked from its last entry to its first
GenCategories_reversed == <<"phrasal_verbs", "vocabulary", "idioms">>

\* the categories in the order of the question_distribution tables
GenCategories == <<"idioms", "vocabulary", "phrasal_verbs">>
CategorySet == {GenCategories[i] : i \in 1..Len(GenCategories)}

NoCounts == [c \in CategorySet |-> 0]

NoGen == [test_type |-> "none", max_questions |-> 0, available |-> NoCounts,
          initial |-> NoCounts, counts |-> NoCounts, questions |-> << >>,
          total_questions |-> 0, status |-> "none"]

----------------------------------------------------------------------------
(* The item store under sequences of practice and evaluation requests *)

\* rows the program can hold: a fresh item, a legacy row with NULL columns,
\* an item practised once, an item raised to 10 by evaluations, an item
\* practised up to 14
InitRows == {Row(0, 0, "null"), Row(None, None, "null"), Row(1, 1, "old"),
             Row(10, 0, "null"), Row(14, 4, "old")}

\* a row above 10 stays in SQLite only where update_practice does not migrate
RowAllowed(k, r, pg) ==
  r.mastery_level > 10 => (~pg \/ k[1] # "vocabulary")

\* one stored item
Init ==
  /\ postgres \in BOOLEAN
  /\ \E k1 \in Keys, r1 \in InitRows :
       /\ RowAllowed(k1, r1, postgres)
       /\ items = [k \in Keys |-> IF k = k1 THEN r1 ELSE AbsentRow]
  /\ native = [k \in Keys |-> AbsentRow]
  /\ pc = "idle"
  /\ pre = items
  /\ req = NoReq
  /\ locals = NoLocals
  /\ resp = NoResp
  /\ gen = NoGen
  /\ upload = NoUpload
  /\ resp100 = NoResp
  /\ sessions = NoSessions

PracticeEnabled(st, category, item_id) ==
  LET item == get_item_by_id_and_type(st, item_id, category_kind(category))
  IN  item.present => Or0(item.times_practiced) < MaxTimes

\* POST /api/update-practice
update_practice ==
  /\ pc = "idle"
  /\ \E category \in Categories, item_id \in Ids, correct \in BOOLEAN,
        commit_ok \in BOOLEAN :
       /\ PracticeEnabled(items, category, item_id)
       /\ LET r == update_practice_result(items, native, postgres, category,
                                          item_id, correct, commit_ok)
          IN  /\ items' = r.items
              /\ native' = r.native
              /\ resp' = r.resp
       /\ locals' = NoLocals
       /\ req' = [NoReq EXCEPT !.op = "update_practice", !.category = category,
                               !.id = item_id, !.correct = correct,
                               !.commit_ok = commit_ok]
  /\ pre' = items
  /\ pc' = "responded"
  /\ UNCHANGED <<sessions, postgres, gen, upload, resp100>>

\* POST /api/evaluation with action update_mastery, for uploads of up to n results
UpdateMastery(R, n) ==
  /\ pc = "idle"
  /\ \E data \in ProcessedData(R, n), threshold \in ThresholdValues :
       \E failAt \in 0..Len(data.results) :
         LET r == update_mastery_levels_result(items, data, threshold, failAt)
         IN  /\ items' = r.items
             /\ resp' = r.resp
             /\ locals' = r.locals
             /\ req' = [NoReq EXCEPT !.op = "update_mastery_levels", !.data = data,
                                     !.threshold = threshold, !.failAt = failAt]
  /\ pre' = items
  /\ pc' = "responded"
  /\ UNCHANGED <<sessions, native, postgres, gen, upload, resp100>>

\* in a sequence of requests every upload carries at most one result; the
\* results of longer uploads are explored by SpecBatch
update_mastery_levels == UpdateMastery(Results, 1)

\* the response is sent, the request context is torn down and time passes
finish_request ==
  /\ pc = "responded"
  /\ pc' = "idle"
  /\ items' = Age(items)
  /\ native' = Age(native)
  /\ pre' = Age(items)
  /\ req' = NoReq
  /\ locals' = NoLocals
  /\ resp' = NoResp
  /\ UNCHANGED <<sessions, postgres, gen, upload, resp100>>

Next == update_practice \/ update_mastery_levels \/ finish_request

Spec == Init /\ [][Next]_vars

----------------------------------------------------------------------------
(* One evaluation batch applied to a store of two items *)

\* a vocabulary word and an idiom are stored, no phrasal verb is
\* the second stored item of a batch: a practised one and one above the cap
BatchRows == {Row(1, 1, "old"), Row(10, 0, "null")}

\* the results of a batch name the two stored items, or the phrasal verb
\* that is not stored
BatchResults == {r \in Results : r.question_id = 1}

\* two stored items with levels in 0..10 (NULL levels and levels above 10
\* are explored by Spec)
InitBatch ==
  /\ postgres = FALSE
  /\ \E r1 \in {r \in InitRows : r.mastery_level \in 0..10}, r2 \in BatchRows :
       items = [k \in Keys |-> IF k = <<"vocabulary", 1>> THEN r1
                               ELSE IF k = <<"idiom", 1>> THEN r2 ELSE AbsentRow]
  /\ native = [k \in Keys |-> AbsentRow]
  /\ pc = "idle"
  /\ pre = items
  /\ req = NoReq
  /\ locals = NoLocals
  /\ resp = NoResp
  /\ gen = NoGen
  /\ upload = NoUpload
  /\ resp100 = NoResp
  /\ sessions = NoSessions

update_mastery_levels_batch == UpdateMastery(BatchResults, MaxBatch)

NextBatch == update_mastery_levels_batch

SpecBatch == InitBatch /\ [][NextBatch]_vars

----------------------------------------------------------------------------
(* UnifiedTestManager: calculate_question_distribution, generate_questions *)

\* question_distribution of REGULAR_TEST and MASTERY_TEST, in percent;
\* int(max_questions * ratio) is (max_questions * percent) \div 100
question_distribution(test_type) ==
  IF test_type = "mastery"
  THEN [c \in CategorySet |-> IF c = "phrasal_verbs" THEN 34 ELSE 33]
  ELSE [c \in CategorySet |-> IF c = "idioms" THEN 40 ELSE 30]

SumCounts(f) == f["idioms"] + f["vocabulary"] + f["phrasal_verbs"]

\* an initial count that is not clamped to the supply of its category
initial_count_unclamped(available_count, max_questions, ratio) ==
  LET ideal_count == (max_questions * ratio) \div 100
  IN  Max(IF available_count > 0 THEN 1 ELSE 0, ideal_count)

\* the initial count of one category
initial_count(available_count, max_questions, ratio) ==
  LET ideal_count == (max_questions * ratio) \div 100
  IN  Min(available_count, Max(IF available_count > 0 THEN 1 ELSE 0, ideal_count))

\* the loop that hands the remaining questions to the categories in order
RECURSIVE distribute_remaining(_, _, _, _)
distribute_remaining(counts, available, remaining, i) ==
  IF i > Len(GenCategories) \/ remaining <= 0 THEN counts
  ELSE LET c == GenCategories[i]
           additional == Min(remaining, available[c] - counts[c])
       IN  IF additional > 0
           THEN distribute_remaining([counts EXCEPT ![c] = @ + additional],
                                     available, remaining - additional, i + 1)
           ELSE distribute_remaining(counts, available, remaining, i + 1)

\* the counts after the loop over the ratio table, before the adjustment
initial_counts(available, n, test_type) ==
  LET total_available == SumCounts(available)
      max_questions == Min(n, total_available)
      distribution == question_distribution(test_type)
  IN  IF total_available = 0 THEN NoCounts
      ELSE [c \in CategorySet |->
              initial_count(available[c], max_questions, distribution[c])]

\* available: number of eligible items per category; n: config['max_questions']
calculate_question_distribution(available, n, test_type) ==
  LET total_available == SumCounts(available)
      max_questions == Min(n, total_available)
      counts == initial_counts(available, n, test_type)
      remaining == max_questions - SumCounts(counts)
  IN  IF total_available = 0 THEN NoCounts
      ELSE distribute_remaining(counts, available, remaining, 1)

\* random.sample(population, count) raises ValueError when count exceeds
\* the population; otherwise it returns count distinct items
generate_questions_result(available, n, test_type) ==
  LET question_counts == calculate_question_distribution(available, n, test_type)
      sampled == [c \in CategorySet |->
                    IF question_counts[c] > 0 /\ available[c] > 0
                    THEN question_counts[c] ELSE 0]
  IN  IF SumCounts(available) = 0
      THEN [counts |-> question_counts, total_questions |-> 0, status |-> "no_items"]
      ELSE IF \E c \in CategorySet : sampled[c] > available[c]
      THEN [counts |-> question_counts, total_questions |-> 0, status |-> "error"]
      ELSE [counts |-> question_counts, total_questions |-> SumCounts(sampled),
            status |-> "ok"]

InitGen ==
  /\ postgres = FALSE
  /\ items = [k \in Keys |-> AbsentRow]
  /\ native = [k \in Keys |-> AbsentRow]
  /\ pc = "idle"
  /\ pre = items
  /\ req = NoReq
  /\ locals = NoLocals
  /\ resp = NoResp
  /\ upload = NoUpload
  /\ resp100 = NoResp
  /\ sessions = NoSessions
  /\ \E available \in [CategorySet -> 0..MaxAvail], n \in 1..MaxTarget,
        test_type \in {"regular", "mastery"} :
       gen = [NoGen EXCEPT !.test_type = test_type, !.max_questions = n,
                           !.available = available]

\* GET /api/test
generate_questions ==
  /\ pc = "idle"
  /\ LET r == generate_questions_result(gen.available, gen.max_questions,
                                        gen.test_type)
     IN  gen' = [gen EXCEPT !.counts = r.counts,
                            !.initial = initial_counts(gen.available,
                                          gen.max_questions, gen.test_type),
                            !.total_questions = r.total_questions,
                            !.status = r.status]
  /\ pc' = "responded"
  /\ UNCHANGED <<sessions, items, native, postgres, pre, req, locals, resp, upload,
               resp100>>

NextGen == generate_questions

SpecGen == InitGen /\ [][NextGen]_vars

----------------------------------------------------------------------------
(* One evaluation posted on the 0-10 scale and on the 0-100 scale *)

\* results with a score of 1..10, the 0-10 scale
ScaleResults == {r \in BatchResults : r.score \in 1..10}

\* the same results with every score multiplied by 10
times10(data) ==
  [data EXCEPT !.results = [i \in 1..Len(data.results) |->
                              [data.results[i] EXCEPT !.score = @ * 10]]]

\* update_mastery_levels on a batch of 0-10 scores, and on the batch with
\* the scores multiplied by 10 applied to the same store; the store keeps
\* the outcome of the first
update_mastery_levels_both_scales ==
  /\ pc = "idle"
  /\ \E results \in SeqsUpTo(ScaleResults, MaxBatch) \ {<< >>},
        threshold \in ThresholdValues :
       LET data == [can_update_mastery |-> TRUE, evaluation_complete |-> TRUE,
                    results |-> results]
           r == update_mastery_levels_result(items, data, threshold, 0)
           r100 == update_mastery_levels_result(items, times10(data), threshold, 0)
       IN  /\ items' = r.items
           /\ locals' = r.locals
           /\ resp' = r.resp
           /\ resp100' = r100.resp
           /\ req' = [NoReq EXCEPT !.op = "update_mastery_levels_both_scales",
                                   !.data = data, !.threshold = threshold]
  /\ pre' = items
  /\ pc' = "responded"
  /\ UNCHANGED <<sessions, native, postgres, gen, upload>>

NextScale == update_mastery_levels_both_scales

SpecScale == InitBatch /\ [][NextScale]_vars

----------------------------------------------------------------------------
(* GET /api/test on a store of items: eligibility, sampling and shuffle *)

\* ids of each kind in the store of the test generator
TestIds == 1..MaxItems
TestKeys == Kinds \X TestIds

\* config['mastery_levels']
mastery_levels(test_type) == IF test_type = "mastery" THEN 5..10 ELSE 0..4

\* the model class queried for a category of the ratio table
category_model(category) ==
  IF category = "vocabulary" THEN "vocabulary"
  ELSE IF category = "phrasal_verbs" THEN "phrasal_verb"
  ELSE "idiom"

\* category.rstrip('s')
rstrip_s(category) ==
  IF category = "phrasal_verbs" THEN "phrasal_verb"
  ELSE IF category = "idioms" THEN "idiom"
  ELSE category

\* a filter that lets a NULL level into every band
in_band_or_null_any(level, levels) ==
  level \in levels \/ level = None

\* the filter of one query: the level is in the band, or NULL when 0 is
in_band_or_null(level, levels) ==
  level \in levels \/ (0 \in levels /\ level = None)

\* the ids of the items each query returns
get_available_items(st, test_type) ==
  [c \in CategorySet |->
     {k[2] : k \in {x \in DOMAIN st :
                      /\ x[1] = category_model(c)
                      /\ st[x].present
                      /\ in_band_or_null(st[x].mastery_level,
                                         mastery_levels(test_type))}}]

create_question_from_item(st, item_id, category) ==
  [id |-> item_id, type |-> rstrip_s(category), category |-> category,
   mastery_level |-> st[<<category_model(category), item_id>>].mastery_level]

\* lists of count draws from the population, an item possibly drawn twice
random_choices(population, count) == [1..count -> population]

\* random.sample(population, count): the lists of count distinct items
random_sample(population, count) ==
  {q \in [1..count -> population] :
     \A i, j \in 1..count : i # j => q[i] # q[j]}

\* random.shuffle(x): every arrangement of the list
shuffle(x) ==
  {[i \in 1..Len(x) |-> x[p[i]]] : p \in Permutations(1..Len(x))}

\* the lists selected_questions can hold before the shuffle
RECURSIVE selected_questions(_, _, _, _)
selected_questions(st, available_items, question_counts, i) ==
  IF i > Len(GenCategories) THEN {<< >>}
  ELSE LET c == GenCategories[i]
           count == question_counts[c]
           rest == selected_questions(st, available_items, question_counts, i + 1)
           drawn == IF count > 0 /\ available_items[c] # {}
                    THEN random_sample(available_items[c], count)
                    ELSE {<< >>}
       IN  {[j \in 1..Len(d) |-> create_question_from_item(st, d[j], c)] \o r :
              d \in drawn, r \in rest}

\* every result generate_questions can return on the store st
generate_questions_results(st, n, test_type) ==
  LET available_items == get_available_items(st, test_type)
      available == [c \in CategorySet |-> Cardinality(available_items[c])]
      question_counts == calculate_question_distribution(available, n, test_type)
      base == [NoGen EXCEPT !.test_type = test_type, !.max_questions = n,
                            !.available = available,
                            !.initial = initial_counts(available, n, test_type),
                            !.counts = question_counts]
  IN  IF SumCounts(available) = 0
      THEN {[base EXCEPT !.status = "no_items"]}
      ELSE IF \E c \in CategorySet : question_counts[c] > available[c]
      THEN {[base EXCEPT !.status = "error"]}
      ELSE {[base EXCEPT !.status = "ok", !.questions = q,
                         !.total_questions = Len(q)] :
              q \in UNION {shuffle(x) :
                             x \in selected_questions(st, available_items,
                                                      question_counts, 1)}}

\* rows of the store of the test generator: no item, a legacy row with a
\* NULL level, the top of the regular band, the top of the mastery band
TestRows == <<AbsentRow, Row(None, None, "null"), Row(4, 4, "old"),
              Row(10, 0, "null")>>

\* the items of a kind are interchangeable: rows in the order of TestRows
InitTest ==
  /\ postgres = FALSE
  /\ \E f \in [TestKeys -> 1..Len(TestRows)] :
       /\ \A k \in TestKeys :
            k[2] < MaxItems => f[k] <= f[<<k[1], k[2] + 1>>]
       /\ items = [k \in TestKeys |-> TestRows[f[k]]]
  /\ native = [k \in Keys |-> AbsentRow]
  /\ pc = "idle"
  /\ pre = items
  /\ req = NoReq
  /\ locals = NoLocals
  /\ resp = NoResp
  /\ gen = NoGen
  /\ upload = NoUpload
  /\ resp100 = NoResp
  /\ sessions = NoSessions

\* GET /api/test?type=..., for a configured max_questions of 1..MaxPick
unified_test_api ==
  /\ pc = "idle"
  /\ \E test_type \in {"regular", "mastery"}, n \in 1..MaxPick :
       \E r \in generate_questions_results(items, n, test_type) : gen' = r
  /\ pc' = "responded"
  /\ UNCHANGED <<sessions, items, native, postgres, pre, req, locals, resp, upload,
               resp100>>

NextTest == unified_test_api

SpecTest == InitTest /\ [][NextTest]_vars

----------------------------------------------------------------------------
(* POST /api/evaluation with an uploaded document: detection, normalization *)

\* top-level keys the uploaded documents are built from
DocKeys == {"test_metadata", "questions_and_responses", "responses",
            "evaluated_results", "summary", "evaluation_summary", "details",
            "overall_score", "test_type", "questions", "metadata"}

\* the keys that hold a list of records
ListKeys == {"questions_and_responses", "responses", "evaluated_results",
             "details", "questions"}

\* the keys of the fifth branch of detect_evaluation_format
SummaryKeys == {"Test Date", "Duration (minutes)", "Total Questions",
                "overall_score", "total_questions"}

\* a detection that takes every document without a known shape for raw
\* test results
detect_evaluation_format_raw_default(data) ==
  IF "test_metadata" \in data.keys /\ "questions_and_responses" \in data.keys
  THEN "mastery_test"
  ELSE IF "responses" \in data.keys /\ data.responses_is_list
  THEN "regular_test"
  ELSE IF "evaluated_results" \in data.keys
  THEN "external_evaluation"
  ELSE IF ("summary" \in data.keys \/ "evaluation_summary" \in data.keys)
          /\ "details" \in data.keys
  THEN "evaluation_report"
  ELSE IF data.keys \cap SummaryKeys # {}
  THEN "evaluation_report"
  ELSE "raw_test_results"

detect_evaluation_format(data) ==
  IF "test_metadata" \in data.keys /\ "questions_and_responses" \in data.keys
  THEN "mastery_test"
  ELSE IF "responses" \in data.keys /\ data.responses_is_list
  THEN "regular_test"
  ELSE IF "evaluated_results" \in data.keys
  THEN "external_evaluation"
  ELSE IF ("summary" \in data.keys \/ "evaluation_summary" \in data.keys)
          /\ "details" \in data.keys
  THEN "evaluation_report"
  ELSE IF data.keys \cap SummaryKeys # {}
  THEN "evaluation_report"
  ELSE IF "test_type" \in data.keys /\ "questions" \in data.keys
          /\ "metadata" \in data.keys
  THEN "raw_test_results"
  ELSE "unknown"

\* data.get(key, []) for a key that holds a list
ListOf(data, key) == IF key \in data.keys THEN data.entries ELSE << >>

\* str.lower() on the spellings of a kind
lower(t) ==
  IF t = "Vocabulary" THEN "vocabulary"
  ELSE IF t = "Idiom" THEN "idiom"
  ELSE IF t = "Phrasal_Verb" THEN "phrasal_verb"
  ELSE t

Processed(format, results, can_update_mastery, evaluation_complete) ==
  [raised |-> FALSE,
   data |-> [success |-> TRUE, format |-> format, results |-> results,
             total_questions |-> Len(results),
             can_update_mastery |-> can_update_mastery,
             evaluation_complete |-> evaluation_complete]]

Raised(format) == [raised |-> TRUE, data |-> [NoProcessed EXCEPT !.format = format]]

\* has_evaluation: some criterion of the question is filled in
process_mastery_evaluation(data) ==
  LET questions == ListOf(data, "questions_and_responses")
      results == [i \in 1..Len(questions) |->
                    [question_id |-> questions[i].id,
                     word_type |-> questions[i].type,
                     score |-> data.score]]
  IN  Processed("mastery_test", results, TRUE,
                questions # << >> /\ data.score # None)

\* a normalization that numbers the responses without an id from 1
process_regular_evaluation_from1(data) ==
  LET responses == ListOf(data, "responses")
      results == [i \in 1..Len(responses) |->
                    [question_id |-> IF responses[i].id = None THEN i
                                     ELSE responses[i].id,
                     word_type |-> responses[i].type,
                     score |-> 0]]
  IN  Processed("regular_test", results, FALSE, FALSE)

\* response.get('id', i) with i counted from 0; 'evaluation': {} reads as 0
process_regular_evaluation(data) ==
  LET responses == ListOf(data, "responses")
      results == [i \in 1..Len(responses) |->
                    [question_id |-> IF responses[i].id = None THEN i - 1
                                     ELSE responses[i].id,
                     word_type |-> responses[i].type,
                     score |-> 0]]
  IN  Processed("regular_test", results, FALSE, FALSE)

process_external_evaluation(data) ==
  LET evaluated_results == ListOf(data, "evaluated_results")
      results == [i \in 1..Len(evaluated_results) |->
                    [question_id |-> evaluated_results[i].id,
                     word_type |-> evaluated_results[i].type,
                     score |-> data.score]]
  IN  Processed("external_evaluation", results, TRUE, TRUE)

\* details is the list of the document; score >= 70 raises on a null score
process_evaluation_report(data) ==
  LET details == ListOf(data, "details")
      results == [i \in 1..Len(details) |->
                    [question_id |-> details[i].id,
                     word_type |-> lower(details[i].type),
                     score |-> data.score]]
  IN  IF details # << >> /\ data.score = None
      THEN Raised("evaluation_report")
      ELSE Processed("evaluation_report", results, TRUE, TRUE)

process_raw_test_results(data) ==
  LET questions == ListOf(data, "questions")
      results == [i \in 1..Len(questions) |->
                    [question_id |-> questions[i].id,
                     word_type |-> questions[i].type,
                     score |-> None]]
  IN  Processed("raw_test_results", results, FALSE, FALSE)

\* raised with format "unknown": ValueError('Unsupported evaluation format')
process_evaluation_upload(data) ==
  LET eval_format == detect_evaluation_format(data)
  IN  IF eval_format = "mastery_test" THEN process_mastery_evaluation(data)
      ELSE IF eval_format = "regular_test" THEN process_regular_evaluation(data)
      ELSE IF eval_format = "external_evaluation"
      THEN process_external_evaluation(data)
      ELSE IF eval_format = "evaluation_report"
      THEN process_evaluation_report(data)
      ELSE IF eval_format = "raw_test_results"
      THEN process_raw_test_results(data)
      ELSE Raised("unknown")

\* the records of the lists of a document: 'id' may be missing
EntryIds == {None, 1}
Entries == [id : EntryIds, type : {"vocabulary", "idiom"}]

\* documents with lists of up to n records; only a document with a list key
\* carries records, and a responses value that is not a list carries none
Docs(n) ==
  {d \in [keys : SUBSET DocKeys, responses_is_list : BOOLEAN,
          entries : SeqsUpTo(Entries, n), score : {None, 9}] :
     /\ ~d.responses_is_list => ("responses" \in d.keys /\ d.entries = << >>)
     /\ d.entries # << >> => d.keys \cap ListKeys # {}
     /\ d.entries = << >> => d.score = None}

\* request_data.get('threshold', 7)
default_threshold == 7

\* the answer to action process
process_response(action, data) ==
  LET p == process_evaluation_upload(data)
  IN  [action |-> action, data |-> data,
       status |-> IF p.raised THEN 500 ELSE 200,
       success |-> ~p.raised,
       error |-> IF ~p.raised THEN "none"
                 ELSE IF p.data.format = "unknown" THEN "unsupported_format"
                 ELSE "exception",
       processed |-> p.data]

\* the store holds one practised vocabulary word
InitUpload ==
  /\ postgres = FALSE
  /\ items = [k \in Keys |-> IF k = <<"vocabulary", 1>> THEN Row(1, 1, "old")
                              ELSE AbsentRow]
  /\ native = [k \in Keys |-> AbsentRow]
  /\ pc = "idle"
  /\ pre = items
  /\ req = NoReq
  /\ locals = NoLocals
  /\ resp = NoResp
  /\ gen = NoGen
  /\ resp100 = NoResp
  /\ sessions = NoSessions
  /\ \E data \in Docs(MaxEntries) : upload = [NoUpload EXCEPT !.data = data]

\* POST /api/evaluation, action process
unified_evaluation_api_process ==
  /\ pc = "idle"
  /\ upload' = process_response("process", upload.data)
  /\ pre' = items
  /\ pc' = "responded"
  /\ UNCHANGED <<sessions, items, native, postgres, req, locals, resp, gen, resp100>>

\* POST /api/evaluation, action update_mastery, with a document that is not
\* yet processed and no threshold in the request; every commit succeeds
\* (failing commits are explored by Spec and SpecBatch)
unified_evaluation_api_update_mastery ==
  /\ pc = "idle"
  /\ LET p == process_evaluation_upload(upload.data)
     IN  IF p.raised
         THEN /\ upload' = process_response("update_mastery", upload.data)
              /\ UNCHANGED <<items, locals, resp>>
         ELSE   LET r == update_mastery_levels_result(items, p.data,
                                                      default_threshold, 0)
                IN  /\ items' = r.items
                    /\ locals' = r.locals
                    /\ resp' = r.resp
                    /\ upload' = [action |-> "update_mastery",
                                  data |-> upload.data,
                                  status |-> IF r.resp.status = "error"
                                             THEN 500 ELSE 200,
                                  success |-> r.resp.status = "ok",
                                  error |-> IF r.resp.status = "error"
                                            THEN "exception" ELSE "none",
                                  processed |-> p.data]
  /\ pre' = items
  /\ pc' = "responded"
  /\ UNCHANGED <<sessions, native, postgres, req, gen, resp100>>

NextUpload ==
  \/ unified_evaluation_api_process
  \/ unified_evaluation_api_update_mastery

SpecUpload == InitUpload /\ [][NextUpload]_vars

----------------------------------------------------------------------------
(* Concurrent requests of update_practice on one item.  Each request has  *)
(* its own session: query.get loads the row into it, the handler assigns  *)
(* the new values to the loaded object, and the commit writes the         *)
(* attributes whose value differs from the loaded one.  Nothing is locked *)
(* between the two steps and the rows carry no version column.  The       *)
(* native store is not configured here, so migrate_to_native_db commits.  *)

SessionIds == 1..MaxSessions

\* an UPDATE that adds to the stored column instead of writing the value
\* computed from the loaded object
flushed_row_increment(stored, loaded, row) ==
  [stored EXCEPT
     !.times_practiced = Or0(stored.times_practiced) + 1,
     !.last_practiced = row.last_practiced,
     !.mastery_level = IF row.mastery_level # loaded.mastery_level
                       THEN row.mastery_level ELSE @]

\* the stored row after the session's UPDATE: the changed attributes of the
\* loaded object overwrite the stored columns
flushed_row(stored, loaded, row) ==
  [stored EXCEPT
     !.times_practiced = IF row.times_practiced # loaded.times_practiced
                         THEN row.times_practiced ELSE @,
     !.last_practiced = IF row.last_practiced # loaded.last_practiced
                        THEN row.last_practiced ELSE @,
     !.mastery_level = IF row.mastery_level # loaded.mastery_level
                       THEN row.mastery_level ELSE @]

InitRace ==
  /\ postgres = FALSE
  /\ \E k1 \in Keys, r1 \in InitRows :
       /\ items = [k \in Keys |-> IF k = k1 THEN r1 ELSE AbsentRow]
       /\ sessions = [key |-> k1,
                      reqs |-> [s \in SessionIds |->
                                  [pc |-> "start", correct |-> FALSE,
                                   item |-> AbsentRow]],
                      order |-> <<>>]
  /\ native = [k \in Keys |-> AbsentRow]
  /\ pc = "idle"
  /\ pre = items
  /\ req = NoReq
  /\ locals = NoLocals
  /\ resp = NoResp
  /\ gen = NoGen
  /\ upload = NoUpload
  /\ resp100 = NoResp

\* the request reads its body and loads the item
update_practice_get(s) ==
  /\ sessions.reqs[s].pc = "start"
  /\ \E correct \in BOOLEAN :
       sessions' = [sessions EXCEPT
                      !.reqs[s] = [pc |-> "loaded", correct |-> correct,
                                   item |-> get_item_by_id_and_type(
                                              items, sessions.key[2],
                                              sessions.key[1])]]
  /\ UNCHANGED <<items, native, postgres, pc, pre, req, locals, resp, gen,
                 upload, resp100>>

\* the request assigns the counters and the level and commits
update_practice_commit(s) ==
  /\ sessions.reqs[s].pc = "loaded"
  /\ sessions.reqs[s].item.present
  /\ LET loaded == sessions.reqs[s].item
         row == practiced_row(loaded, sessions.reqs[s].correct)
     IN  items' = [items EXCEPT
                     ![sessions.key] = flushed_row(@, loaded, row)]
  /\ pre' = items
  /\ sessions' = [sessions EXCEPT !.reqs[s].pc = "done",
                                  !.order = Append(@, s)]
  /\ UNCHANGED <<native, postgres, pc, req, locals, resp, gen, upload,
                 resp100>>

NextRace ==
  \E s \in SessionIds : update_practice_get(s) \/ update_practice_commit(s)

SpecRace == InitRace /\ [][NextRace]_vars

----------------------------------------------------------------------------
(* POST /api/process-mastery-levels.  An entry of detailed_evaluation is   *)
(* [score, type, word]: word is the id of the item whose name the entry's  *)
(* 'Word/Phrase' matches under ilike, or None for ''.                      *)

\* app.py defines no global of this name: evaluating it raises NameError
MASTERY_SCORE_THRESHOLD == None

LevelEntries ==
  [score : {5, 9}, type : {"vocabulary", "Idiom", "phrasal_verb"},
   word : Ids \cup {None}]

\* one pass of the loop over detailed_evaluation
process_level_entry(s, entry, threshold, pg, commit_ok) ==
  LET item_type == lower(entry.type)
      key == <<item_type, entry.word>>
      item == get_item_by_id_and_type(s.items, entry.word, item_type)
      row == [item EXCEPT
                !.mastery_level = Min(Or0(item.mastery_level) + 1, 15),
                !.last_practiced = "now",
                !.times_practiced = item.times_practiced + 1]
      m == migrate_to_native_db(s.items, s.native, pg, key, row, item_type,
                                commit_ok)
      listed == [type |-> item_type, word |-> entry.word,
                 old_level |-> item.mastery_level,
                 new_level |-> row.mastery_level, score |-> entry.score]
  IN  IF s.raised \/ ~(entry.score >= threshold /\ entry.word # None) THEN s
      ELSE IF item_type \notin Kinds \/ ~item.present
      THEN [s EXCEPT !.not_found_items =
                        Append(@, [type |-> item_type, word |-> entry.word,
                                   score |-> entry.score])]
      ELSE IF item.times_practiced = None
      THEN [s EXCEPT !.raised = TRUE]
      ELSE IF row.mastery_level > 10
      THEN IF m.raised THEN s
           ELSE [s EXCEPT !.items = m.items, !.native = m.native,
                          !.updated_items = Append(@, listed)]
      ELSE IF commit_ok
      THEN [s EXCEPT !.items[key] = row, !.updated_items = Append(@, listed)]
      ELSE s

RECURSIVE process_level_entries(_, _, _, _, _, _)
process_level_entries(s, detailed_evaluation, i, threshold, pg, commit_ok) ==
  IF i > Len(detailed_evaluation) THEN s
  ELSE process_level_entries(
         process_level_entry(s, detailed_evaluation[i], threshold, pg,
                             commit_ok),
         detailed_evaluation, i + 1, threshold, pg, commit_ok)

\* data.get('threshold', MASTERY_SCORE_THRESHOLD) evaluates the default
\* before the call, whether or not the request carries a threshold
process_mastery_levels_result(st, nat, pg, data, commit_ok) ==
  LET threshold == IF data.threshold = None THEN MASTERY_SCORE_THRESHOLD
                   ELSE data.threshold
      s0 == [items |-> st, native |-> nat, updated_items |-> << >>,
             not_found_items |-> << >>, raised |-> FALSE]
      s == process_level_entries(s0, data.detailed_evaluation, 1, threshold,
                                 pg, commit_ok)
  IN  IF ~data.has_detailed_evaluation
      THEN [items |-> st, native |-> nat,
            resp |-> [NoResp EXCEPT !.status = "400"]]
      ELSE IF MASTERY_SCORE_THRESHOLD = None \/ s.raised
      THEN [items |-> st, native |-> nat,
            resp |-> [NoResp EXCEPT !.status = "500"]]
      ELSE [items |-> s.items, native |-> s.native,
            resp |-> [NoResp EXCEPT !.status = "ok",
                                    !.changes = s.updated_items,
                                    !.failed_items = s.not_found_items,
                                    !.total_questions =
                                       Len(data.detailed_evaluation)]]

LevelRequests ==
  {d \in [has_detailed_evaluation : BOOLEAN,
          detailed_evaluation : SeqsUpTo(LevelEntries, MaxBatch),
          threshold : {None, 7}] :
     ~d.has_detailed_evaluation => d.detailed_evaluation = << >>}

process_mastery_levels ==
  /\ pc = "idle"
  /\ \E data \in LevelRequests, commit_ok \in BOOLEAN :
       /\ LET r == process_mastery_levels_result(items, native, postgres,
                                                 data, commit_ok)
          IN  /\ items' = r.items
              /\ native' = r.native
              /\ resp' = r.resp
       /\ req' = [NoReq EXCEPT !.op = "process_mastery_levels",
                               !.data = data, !.commit_ok = commit_ok]
  /\ locals' = NoLocals
  /\ pre' = items
  /\ pc' = "responded"
  /\ UNCHANGED <<sessions, postgres, gen, upload, resp100>>

NextLevels == process_mastery_levels \/ finish_request

SpecLevels == Init /\ [][NextLevels]_vars

----------------------------------------------------------------------------
(* POST /api/test: a submitted test becomes a document, which is then      *)
(* uploaded to POST /api/evaluation.                                       *)

\* a regular result that leaves the responses out
process_regular_submission_summary(responses) ==
  [keys |-> {"test_date", "duration_minutes", "total_questions"},
   responses_is_list |-> TRUE, entries |-> << >>, score |-> None]

\* the 'result' of a regular submission
process_regular_submission(responses) ==
  [keys |-> {"test_date", "duration_minutes", "total_questions", "responses"},
   responses_is_list |-> TRUE, entries |-> responses, score |-> None]

\* the responses whose item is found, in order
RECURSIVE found_responses(_, _)
found_responses(st, responses) ==
  IF responses = << >> THEN << >>
  ELSE LET response == Head(responses)
           item == get_item_by_id_and_type(st, response.id, response.type)
       IN  (IF item.present THEN <<response>> ELSE << >>)
             \o found_responses(st, Tail(responses))

\* the 'test_result' of a mastery submission; every evaluation criterion
\* is None
process_mastery_submission(st, responses) ==
  [keys |-> {"test_metadata", "questions_and_responses"},
   responses_is_list |-> TRUE, entries |-> found_responses(st, responses),
   score |-> None]

process_submission(st, test_type, responses) ==
  IF test_type = "regular" THEN process_regular_submission(responses)
  ELSE process_mastery_submission(st, responses)

\* POST /api/test; the document it answers is kept for the upload
unified_test_api_submit ==
  /\ pc = "idle"
  /\ req.op = "none"
  /\ \E test_type \in {"regular", "mastery"},
        responses \in SeqsUpTo(Entries, MaxEntries) :
       /\ req' = [NoReq EXCEPT !.op = "process_submission",
                               !.category = test_type,
                               !.data = [NoData EXCEPT !.results = responses]]
       /\ upload' = [NoUpload EXCEPT
                       !.data = process_submission(items, test_type, responses)]
  /\ UNCHANGED <<sessions, items, native, postgres, pc, pre, locals, resp, gen,
                 resp100>>

NextSubmit == unified_test_api_submit \/ unified_evaluation_api_process

SpecSubmit == Init /\ [][NextSubmit]_vars

----------------------------------------------------------------------------
(* Properties *)

Responded(op) == pc = "responded" /\ req.op = op

\* update_mastery_levels ran its loop (the upload was not refused)
Evaluated ==
  /\ Responded("update_mastery_levels")
  /\ req.data.can_update_mastery /\ req.data.evaluation_complete

\* the thresholds the request works with, in tenths
Exc10Used ==
  excellent_threshold10(req.threshold, detected_scale_100(req.data.results))
Poor10Used ==
  poor_threshold10(req.threshold, detected_scale_100(req.data.results))

EntryKey(c) == <<c.word_type, c.id>>

\* entries of updated_items that refer to item k
EntriesOf(k) ==
  {i \in 1..Len(locals.updated_items) : EntryKey(locals.updated_items[i]) = k}

LastOf(S) == CHOOSE i \in S : \A j \in S : j <= i

\* the level of the item of entry i when result i was processed
LevelBefore(i) ==
  LET k == EntryKey(locals.updated_items[i])
      earlier == {j \in EntriesOf(k) : j < i}
  IN  IF earlier = {} THEN pre[k].mastery_level
      ELSE locals.updated_items[LastOf(earlier)].new_level

\* the level the applied results leave in the store for item k
LevelAfter(k) ==
  IF EntriesOf(k) = {} THEN pre[k].mastery_level
  ELSE locals.updated_items[LastOf(EntriesOf(k))].new_level

Found(result) == pre[<<result.word_type, result.question_id>>].present

\* no stored row has a NULL mastery level
NoNullLevel == \A k \in Keys : pre[k].present => pre[k].mastery_level # None

\* C1: an item whose stored mastery level is in 0..10 before an
\* evaluation request is stored with a level in 0..10 after it, whatever
\* the scores, the thresholds, the score scale and the commit failures
C1_LevelStaysWithin0To10 ==
  Responded("update_mastery_levels") =>
    \A k \in Keys :
      (pre[k].present /\ pre[k].mastery_level \in 0..10) =>
        (items[k].present /\ items[k].mastery_level \in 0..10)

\* an excellent score on an item at level 10 was applied: the level stays 10
C1_Witness ==
  /\ Evaluated
  /\ \E i \in 1..Len(locals.updated_items) :
       LET c == locals.updated_items[i]
       IN  /\ c.action = "increased_level"
           /\ c.old_level = 10
           /\ pre[EntryKey(c)].mastery_level = 10
           /\ items[EntryKey(c)].mastery_level = 10

\* the level the three-band rule prescribes for level L and score s
RuleLevel(L, s) ==
  IF s * 10 > Exc10Used THEN Min(10, L + 1)
  ELSE IF s * 10 < Poor10Used THEN Max(0, L - 1)
  ELSE L

\* C2: every result applied to a found item with level L in 0..10 and
\* score s gives the level min(10, L+1) if s > excellentThreshold, else
\* max(0, L-1) if s < poorThreshold, else L; L is the level stored when the
\* result is processed and the level of the last applied result is stored
C2_ThreeBandRule ==
  Evaluated =>
    /\ \A i \in 1..Len(locals.updated_items) :
         LET c == locals.updated_items[i]
         IN  /\ c.old_level = LevelBefore(i)
             /\ c.old_level \in 0..10 => c.new_level = RuleLevel(c.old_level, c.score)
    /\ \A k \in Keys : pre[k].present => items[k].mastery_level = LevelAfter(k)

\* an excellent score raised a level below 10 by one, in the store
C2_Witness ==
  /\ Evaluated
  /\ \E i \in 1..Len(locals.updated_items) :
       LET c == locals.updated_items[i]
       IN  /\ c.score * 10 > Exc10Used
           /\ c.old_level \in 0..9
           /\ pre[EntryKey(c)].mastery_level = c.old_level
           /\ items[EntryKey(c)].mastery_level = c.old_level + 1

\* C3: a score equal to the excellent threshold or to the poor threshold
\* leaves the level of its item unchanged
C3_BoundaryScoreKeepsLevel ==
  Evaluated =>
    \A i \in 1..Len(locals.updated_items) :
      LET c == locals.updated_items[i]
      IN  (c.score * 10 = Exc10Used \/ c.score * 10 = Poor10Used) =>
            c.new_level = c.old_level

\* C4: every evaluated result applied to a found item increments
\* times_practiced by 1 and sets last_practiced to the current time (unless
\* a poor score left the item at level 0)
C4_EvaluationCountsAsPractice ==
  Evaluated =>
    \A k \in Keys :
      (EntriesOf(k) # {} /\ items[k].mastery_level # 0) =>
        /\ items[k].times_practiced =
             Or0(pre[k].times_practiced) + Cardinality(EntriesOf(k))
        /\ items[k].last_practiced = "now"

\* C5: whenever a poor score leaves an item at level 0, dropped from level
\* 1 or already at level 0, times_practiced is 0 and last_practiced is NULL
C5_PoorAtLevel0Resets ==
  Evaluated =>
    \A k \in Keys :
      (/\ EntriesOf(k) # {}
       /\ locals.updated_items[LastOf(EntriesOf(k))].action = "reduced_level"
       /\ items[k].mastery_level = 0) =>
        /\ items[k].times_practiced = 0
        /\ items[k].last_practiced = "null"

\* the row of item k wherever update_practice left it
RowOf(k) == IF items[k].present THEN items[k] ELSE native[k]

\* C6: update_practice on an existing item with level L whose commit
\* succeeds stores min(15, L+1) for correct=true and max(0, L-1) for
\* correct=false, times_practiced + 1 and last_practiced = now, a NULL level
\* or counter counting as 0
C6_BinaryPractice ==
  (/\ Responded("update_practice")
   /\ req.commit_ok
   /\ category_kind(req.category) \in Kinds
   /\ pre[<<category_kind(req.category), req.id>>].present) =>
    LET k == <<category_kind(req.category), req.id>>
        L == Or0(pre[k].mastery_level)
    IN  /\ resp.status = "ok"
        /\ RowOf(k).present
        /\ RowOf(k).mastery_level = IF req.correct THEN Min(15, L + 1)
                                                   ELSE Max(0, L - 1)
        /\ RowOf(k).times_practiced = Or0(pre[k].times_practiced) + 1
        /\ RowOf(k).last_practiced = "now"

\* a correct answer on an item at the ceiling 15: the level stays 15 and
\* the counter grows
C6_Witness ==
  /\ Responded("update_practice")
  /\ req.commit_ok /\ req.correct
  /\ category_kind(req.category) \in Kinds
  /\ LET k == <<category_kind(req.category), req.id>>
     IN  /\ pre[k].present /\ pre[k].mastery_level = 15
         /\ items[k].present /\ items[k].mastery_level = 15
         /\ items[k].times_practiced = pre[k].times_practiced + 1

\* result i of the upload is mentioned in a list of the response
Mentioned(result, list) ==
  \E j \in 1..Len(list) :
    list[j].id = result.question_id /\ list[j].word_type = result.word_type

\* C7: when the commit of one item's level change fails (in a store
\* without NULL levels), the item keeps its level and is reported in
\* failed_items of the response, and every other result with a found item
\* is applied and listed in changes
C7_CommitFailureIsIsolated ==
  (Evaluated /\ NoNullLevel /\ locals.failed_items # << >>) =>
    LET results == req.data.results
        failed == results[req.failAt]
        others == {i \in 1..Len(results) : i # req.failAt /\ Found(results[i])}
    IN  /\ resp.status = "ok"
        /\ Len(resp.failed_items) = 1
        /\ resp.failed_items[1].id = failed.question_id
        /\ resp.failed_items[1].word_type = failed.word_type
        /\ resp.failed_items[1].new_level = resp.failed_items[1].old_level
        /\ Len(resp.changes) = Cardinality(others)
        /\ \A k \in Keys : pre[k].present => items[k].mastery_level = LevelAfter(k)

\* C8: a result whose (id, kind) is absent from the store is skipped and
\* recorded in the response, so that every result of the batch is accounted
\* for in the response
C8_NotFoundIsRecorded ==
  (Evaluated /\ resp.status = "ok") =>
    \A i \in 1..Len(req.data.results) :
      \/ Mentioned(req.data.results[i], resp.changes)
      \/ Mentioned(req.data.results[i], resp.failed_items)

\* C9: an evaluated upload (to a store without NULL levels) is always
\* answered with a (partial-)success response, also when a result of a
\* stored item has no score
C9_NoResultAbortsTheBatch ==
  (Evaluated /\ NoNullLevel) => resp.status = "ok"

IdealOf(c) ==
  (Min(gen.max_questions, SumCounts(gen.available))
     * question_distribution(gen.test_type)[c]) \div 100

Generated == pc = "responded" /\ gen.status # "none"

\* C11: the count of every kind is at most the number of eligible items of
\* that kind, after the initial ratio step and after the redistribution of
\* the shortfall
C11_CountWithinAvailability ==
  Generated =>
    \A c \in {"idioms", "vocabulary", "phrasal_verbs"} :
      /\ gen.initial[c] <= gen.available[c]
      /\ gen.counts[c] <= gen.available[c]

\* a kind whose ratio target exceeds its supply was clamped, and another
\* kind received questions in the redistribution
C11_Witness ==
  /\ Generated
  /\ \E c \in CategorySet : IdealOf(c) > gen.available[c] /\ gen.available[c] > 0
  /\ \E c \in CategorySet : gen.counts[c] > gen.initial[c]

\* C12: the shortfall goes to idioms, then vocabulary, then phrasal verbs:
\* a kind receives extra questions only when every kind before it in this
\* order has no eligible item left over
C12_ShortfallOrder ==
  Generated =>
    /\ gen.counts["vocabulary"] > gen.initial["vocabulary"] =>
          gen.counts["idioms"] = gen.available["idioms"]
    /\ gen.counts["phrasal_verbs"] > gen.initial["phrasal_verbs"] =>
          /\ gen.counts["idioms"] = gen.available["idioms"]
          /\ gen.counts["vocabulary"] = gen.available["vocabulary"]

\* the shortfall reached the last two kinds after the kinds before them
\* were used up
C12_Witness ==
  /\ Generated
  /\ gen.counts["phrasal_verbs"] > gen.initial["phrasal_verbs"]
  /\ gen.counts["vocabulary"] > gen.initial["vocabulary"]
  /\ gen.available["idioms"] > 0

\* the band of a test: levels 0..4 (a NULL level counting as 0) for the
\* regular test, levels 5..10 for the mastery test
InBand(level, test_type) ==
  IF test_type = "mastery" THEN level \in 5..10
  ELSE level \in 0..4 \/ level = None

QuestionKey(q) == <<q.type, q.id>>

Eligible(k) ==
  k \in DOMAIN items /\ items[k].present
    /\ InBand(items[k].mastery_level, gen.test_type)

\* C13: the questions of a generated test are eligible items, each a
\* stored item of its kind with a level in the band of the test, and no
\* (kind, id) pair occurs twice
C13_QuestionsAreDistinctEligibleItems ==
  Generated =>
    /\ gen.status \in {"ok", "no_items"}
    /\ \A i \in 1..Len(gen.questions) : Eligible(QuestionKey(gen.questions[i]))
    /\ \A i, j \in 1..Len(gen.questions) :
         i # j => QuestionKey(gen.questions[i]) # QuestionKey(gen.questions[j])

\* a test of several questions, one of them an item with a NULL level,
\* that leaves an eligible item out
C13_Witness ==
  /\ Generated
  /\ gen.status = "ok"
  /\ Len(gen.questions) >= 2
  /\ \E i \in 1..Len(gen.questions) : gen.questions[i].mastery_level = None
  /\ \E k \in DOMAIN items :
       /\ Eligible(k)
       /\ \A i \in 1..Len(gen.questions) : QuestionKey(gen.questions[i]) # k

\* C14: when no stored item has a level in the band of the test, the
\* result is the failure result with no question, and nothing is raised
C14_NoItemsIsAFailureResult ==
  (Generated /\ \A k \in DOMAIN items : ~Eligible(k)) =>
    /\ gen.status = "no_items"
    /\ gen.questions = << >>
    /\ gen.total_questions = 0

\* a mastery test on a store that holds items, all of them outside the band
C14_Witness ==
  /\ Generated
  /\ gen.test_type = "mastery"
  /\ gen.status = "no_items"
  /\ \E k \in DOMAIN items : items[k].present /\ items[k].mastery_level = None
  /\ \E k \in DOMAIN items : items[k].present /\ items[k].mastery_level = 4

Uploaded == pc = "responded" /\ upload.action # "none"

\* the five shapes of an uploaded document
ShapeDetailed(d) ==
  "test_metadata" \in d.keys /\ "questions_and_responses" \in d.keys
ShapeSimple(d) == "responses" \in d.keys /\ d.responses_is_list
ShapeExternal(d) == "evaluated_results" \in d.keys
ShapeReport(d) ==
  ("summary" \in d.keys \/ "evaluation_summary" \in d.keys) /\ "details" \in d.keys
ShapeRaw(d) ==
  "test_type" \in d.keys /\ "questions" \in d.keys /\ "metadata" \in d.keys

\* the earliest of the five shapes a document matches
FirstShape(d) ==
  IF ShapeDetailed(d) THEN "mastery_test"
  ELSE IF ShapeSimple(d) THEN "regular_test"
  ELSE IF ShapeExternal(d) THEN "external_evaluation"
  ELSE IF ShapeReport(d) THEN "evaluation_report"
  ELSE IF ShapeRaw(d) THEN "raw_test_results"
  ELSE "unknown"

\* C15: a document that matches one of the five shapes is classified as the
\* earliest shape it matches, in the order detailed, simple, external,
\* report, raw
C15_DetectionOrder ==
  (Uploaded /\ FirstShape(upload.data) # "unknown") =>
    upload.processed.format = FirstShape(upload.data)

\* C16: a document that matches none of the five shapes is never
\* normalized: the upload fails with the unrecognized-format error
C16_UnknownShapeIsRejected ==
  (Uploaded /\ FirstShape(upload.data) = "unknown") =>
    /\ ~upload.success
    /\ upload.error = "unsupported_format"

\* C17: the empty document is answered with the unrecognized-format error
\* (success false) under either action, and the store is left as it was
C17_EmptyDocumentIsRejected ==
  (Uploaded /\ upload.data.keys = {}) =>
    /\ ~upload.success
    /\ upload.error = "unsupported_format"
    /\ upload.status = 500
    /\ items = pre

\* the empty document was uploaded for a mastery update to a store that
\* holds an item
C17_Witness ==
  /\ Uploaded
  /\ upload.data = NoDoc
  /\ upload.action = "update_mastery"
  /\ \E k \in Keys : pre[k].present

\* C18: a document whose only key is responses, holding a list, is detected
\* as regular_test and normalized without error into one result per
\* response, in the order of the responses, with total_questions their number
C18_ResponsesOnlyIsSimple ==
  (Uploaded /\ upload.action = "process" /\ upload.data.keys = {"responses"}
     /\ upload.data.responses_is_list) =>
    LET responses == upload.data.entries
        results == upload.processed.results
    IN  /\ upload.success
        /\ upload.processed.format = "regular_test"
        /\ Len(results) = Len(responses)
        /\ upload.processed.total_questions = Len(responses)
        /\ \A i \in 1..Len(responses) :
             /\ results[i].word_type = responses[i].type
             /\ results[i].question_id =
                  (IF responses[i].id = None THEN i - 1 ELSE responses[i].id)

\* two different responses, the first without an id
C18_Witness ==
  /\ Uploaded
  /\ upload.action = "process"
  /\ upload.data.keys = {"responses"}
  /\ upload.data.responses_is_list
  /\ Len(upload.data.entries) = 2
  /\ upload.data.entries[1].id = None
  /\ upload.data.entries[1] # upload.data.entries[2]

\* the action the pair of thresholds reported in the response gives a score
ReportedAction(score) ==
  IF score * 10 > resp.threshold_used10 THEN "increased_level"
  ELSE IF score * 10 < resp.poor_threshold_used10 THEN "reduced_level"
  ELSE "maintained_level"

\* C19: a batch is taken to be on the 0-100 scale exactly when one of its
\* scores exceeds 10, and every result of the batch is judged with the one
\* pair of thresholds derived for that scale
C19_OneScalePerBatch ==
  (Evaluated /\ resp.status = "ok") =>
    /\ resp.scale100 =
         (\E i \in 1..Len(req.data.results) : req.data.results[i].score > 10)
    /\ resp.threshold_used10 = Exc10Used
    /\ resp.poor_threshold_used10 = Poor10Used
    /\ \A i \in 1..Len(resp.changes) :
         resp.changes[i].action = ReportedAction(resp.changes[i].score)

\* a batch that mixes a score above 10 with a score of at most 10, both
\* applied
C19_Witness ==
  /\ Evaluated
  /\ resp.status = "ok"
  /\ resp.scale100
  /\ \E i, j \in 1..Len(resp.changes) :
       resp.changes[i].score > 10 /\ resp.changes[j].score \in 1..10

\* the decisions of a response, result by result
Decisions(r) == [i \in 1..Len(r.changes) |-> r.changes[i].action]

\* C20: a batch of 0-10 scores and the batch with every score multiplied
\* by 10 get the same decision (increase, decrease, maintain) for every
\* result, under every threshold
C20_ScaleIndependentDecisions ==
  Responded("update_mastery_levels_both_scales") =>
    /\ resp.status = resp100.status
    /\ Decisions(resp) = Decisions(resp100)

\* C21: whatever threshold the request carries and whichever scale is
\* detected, the poor threshold the batch is judged with is strictly below
\* the excellent threshold
C21_PoorBelowExcellent ==
  (Evaluated /\ resp.status = "ok") =>
    resp.poor_threshold_used10 < resp.threshold_used10

\* C22: over every sequence of practice and evaluation updates of an item,
\* times_practiced never decreases from the store before a request to the
\* store after it, except for the reset to 0 that comes with level 0
C22_CounterNeverDecreases ==
  pc = "responded" =>
    \A k \in Keys :
      (pre[k].present /\ RowOf(k).present) =>
        \/ Or0(RowOf(k).times_practiced) >= Or0(pre[k].times_practiced)
        \/ /\ RowOf(k).mastery_level = 0
           /\ RowOf(k).times_practiced = 0

\* a poor score dropped a practised item to level 0 and reset its counter
C22_Witness ==
  /\ Evaluated
  /\ \E k \in Keys :
       /\ pre[k].present /\ pre[k].times_practiced > 0
       /\ pre[k].mastery_level = 1
       /\ items[k].mastery_level = 0 /\ items[k].times_practiced = 0


LastCommitter == sessions.order[Len(sessions.order)]

\* C23: two concurrent requests of update_practice may load the same row; the
\* row stored after the commits holds the counter and the level computed by
\* the request that committed last from the row it loaded, so the other
\* request's update is lost
C23_LastCommitterWins ==
  sessions.order # <<>> =>
    LET loaded == sessions.reqs[LastCommitter].item
        row == practiced_row(loaded, sessions.reqs[LastCommitter].correct)
        stored == items[sessions.key]
    IN  /\ stored.times_practiced = Or0(loaded.times_practiced) + 1
        /\ stored.mastery_level =
             IF row.mastery_level # loaded.mastery_level
             THEN row.mastery_level
             ELSE pre[sessions.key].mastery_level

C23_Witness ==
  /\ sessions.order = <<1, 2>>
  /\ sessions.reqs[1].item = sessions.reqs[2].item
  /\ sessions.reqs[1].correct /\ sessions.reqs[2].correct
  /\ sessions.reqs[1].item.mastery_level = 1
  /\ items[sessions.key].mastery_level = 2
  /\ items[sessions.key].times_practiced =
       sessions.reqs[1].item.times_practiced + 1


\* the request was answered by update_mastery_levels with success false and
\* the store is as it was before the request
Refused == resp.status = "refused" /\ ~upload.success /\ items = pre

\* C24: update_mastery_levels refuses (success false, no stored item changed)
\* whenever the normalized data has can_update_mastery or evaluation_complete
\* false; every upload of the simple shape, every upload of the raw shape and
\* every upload of the detailed shape with no criterion filled in is refused
C24_UnevaluatedUploadIsRefused ==
  (Uploaded /\ upload.action = "update_mastery") =>
    /\ (upload.error = "none"
          /\ (~upload.processed.can_update_mastery
                \/ ~upload.processed.evaluation_complete)) => Refused
    /\ FirstShape(upload.data) \in {"regular_test", "raw_test_results"}
         => Refused
    /\ (FirstShape(upload.data) = "mastery_test" /\ upload.data.score = None)
         => Refused


\* C25: with the native store configured, a practice update that raises an
\* item's level above 10 moves the item: it is present in the native store
\* and absent from the primary store, for each of the three kinds
C25_PracticeMigratesAbove10 ==
  (/\ Responded("update_practice")
   /\ postgres
   /\ req.commit_ok /\ req.correct
   /\ category_kind(req.category) \in Kinds
   /\ pre[<<category_kind(req.category), req.id>>].present
   /\ Or0(pre[<<category_kind(req.category), req.id>>].mastery_level) >= 10
   /\ Or0(pre[<<category_kind(req.category), req.id>>].mastery_level) < 15) =>
    LET k == <<category_kind(req.category), req.id>>
    IN  /\ native[k].present
        /\ native[k].mastery_level > 10
        /\ ~items[k].present


\* the entry is the only one of the request that names its item
NamedOnce(entries, i) ==
  \A j \in 1..Len(entries) :
    (lower(entries[j].type) = lower(entries[i].type)
       /\ entries[j].word = entries[i].word) => j = i

\* C26: process_mastery_levels raises the item of every entry with a Score
\* of at least the threshold and a word matching a stored item of its type
\* to min(level+1, 15), increments times_practiced, sets last_practiced and
\* lists the entry in updated_items; entries below the threshold change
\* nothing
C26_HighScoreRaisesLevel ==
  (/\ Responded("process_mastery_levels")
   /\ req.commit_ok
   /\ req.data.has_detailed_evaluation
   /\ req.data.threshold # None) =>
    \A i \in 1..Len(req.data.detailed_evaluation) :
      LET entry == req.data.detailed_evaluation[i]
          k == <<lower(entry.type), entry.word>>
      IN  (k \in Keys /\ pre[k].present
             /\ NamedOnce(req.data.detailed_evaluation, i)) =>
            IF entry.score >= req.data.threshold
            THEN /\ RowOf(k).mastery_level =
                      Min(Or0(pre[k].mastery_level) + 1, 15)
                 /\ RowOf(k).times_practiced =
                      Or0(pre[k].times_practiced) + 1
                 /\ RowOf(k).last_practiced = "now"
                 /\ \E j \in 1..Len(resp.changes) :
                      /\ resp.changes[j].type = k[1]
                      /\ resp.changes[j].word = k[2]
            ELSE RowOf(k) = pre[k]


\* the document of a submitted test was uploaded
Submitted == Uploaded /\ req.op = "process_submission"

\* C27: the document produced by process_submission is recognized as the
\* matching format: mastery_test for a mastery submission, regular_test for
\* a regular one, for every list of responses
C27_SubmissionIsRecognized ==
  Submitted =>
    /\ detect_evaluation_format(upload.data) =
         (IF req.category = "mastery" THEN "mastery_test" ELSE "regular_test")
    /\ upload.success
    /\ upload.processed.format = detect_evaluation_format(upload.data)

\* a regular submission without responses: the result holds the key
\* total_questions and an empty list of responses
C27_Witness ==
  /\ Submitted
  /\ req.category = "regular"
  /\ req.data.results = << >>
  /\ "total_questions" \in upload.data.keys
  /\ upload.processed.format = "regular_test"


\* C28: an excellent score never lowers a level: for every stored item,
\* whatever level practice and evaluation left it at, a result with a score
\* above the excellent threshold is stored with a level greater than or
\* equal to the level before the update
C28_ExcellentNeverLowers ==
  (Evaluated /\ resp.status = "ok" /\ req.failAt = 0) =>
    \A i \in 1..Len(req.data.results) :
      LET result == req.data.results[i]
          k == <<result.word_type, result.question_id>>
      IN  (/\ k \in Keys
           /\ pre[k].present
           /\ pre[k].mastery_level # None
           /\ result.score # None
           /\ result.score * 10 > resp.threshold_used10) =>
            /\ items[k].present
            /\ items[k].mastery_level >= pre[k].mastery_level


C30_EveryResultCountedOnce ==
  (Evaluated /\ resp.status = "ok") =>
    /\ resp.increased_count + resp.decreased_count + resp.maintained_count
         + resp.failed_count = resp.total_questions
    /\ Len(resp.changes) + Len(resp.failed_items) <= Len(req.data.results)

====
